---- MODULE Spec2Model ----
(***************************************************************************)
(* Model of crates/js-component-bindgen/src/configuration.rs: the element  *)
(* path (configuration_name), the configuration store (get / get_member),  *)
(* the ElementConfig accessors and the three type-shape classifiers.       *)
(*                                                                         *)
(* Encoding of the Rust data:                                              *)
(*   Option<T>      None == <<>>, Some(x) == <<x>>                         *)
(*   String         a TLA+ string, concatenated with \o                    *)
(*   Vec<T>         a sequence                                             *)
(*   enum           a record with a "tag" field and the arm's own fields   *)
(*   Arena<T>[id]   a sequence indexed by the id                           *)
(***************************************************************************)
EXTENDS Integers, Sequences, FiniteSets, TLC

VARIABLES resolve, mappings, call, result, probe, probeResult

vars == <<resolve, mappings, call, result, probe, probeResult>>

----------------------------------------------------------------------------
(* Bounds of the checked input space *)

MaxTypes == 2
MaxTupleLen == 3
MaxFunctions == 2
MaxResults == 2
MaxCases == 3
MaxKeys == 2

----------------------------------------------------------------------------
(* Option<T> *)

None == <<>>
Some(x) == <<x>>
IsSome(o) == o # <<>>
Unwrap(o) == o[1]

(* All sequences over S of length 0..n *)
SeqsUpTo(S, n) == UNION {[1..k -> S] : k \in 0..n}

----------------------------------------------------------------------------
(* wit_parser::Type, TypeOwner, FunctionKind, TypeDefKind values *)

TString == [tag |-> "String"]
TU32 == [tag |-> "U32"]
TId(id) == [tag |-> "Id", id |-> id]

OwnerWorld(id) == [tag |-> "World", id |-> id]
OwnerInterface(id) == [tag |-> "Interface", id |-> id]
OwnerNone == [tag |-> "None"]

Freestanding == [tag |-> "Freestanding"]
Method(id) == [tag |-> "Method", id |-> id]
Static(id) == [tag |-> "Static", id |-> id]
Constructor(id) == [tag |-> "Constructor", id |-> id]

KRecord == [tag |-> "Record"]
KResource == [tag |-> "Resource"]
KEnum == [tag |-> "Enum"]
KList(ty) == [tag |-> "List", ty |-> ty]
KOption(ty) == [tag |-> "Option", ty |-> ty]
KTuple(types) == [tag |-> "Tuple", types |-> types]
KVariant(cases) == [tag |-> "Variant", cases |-> cases]
KHandleOwn(id) == [tag |-> "Handle", handle |-> "Own", id |-> id]
KHandleBorrow(id) == [tag |-> "Handle", handle |-> "Borrow", id |-> id]
KType(ty) == [tag |-> "Type", ty |-> ty]

TypeDef(name, kind, owner) == [name |-> name, kind |-> kind, owner |-> owner]
Case(name, ty) == [name |-> name, ty |-> ty]

(* item_name is the value of Function::item_name(), the function's local   *)
(* name; results is the list of result types (results.iter_types()).       *)
Function(kind, item_name, results) ==
    [kind |-> kind, item_name |-> item_name, results |-> results]

(* The elements a path can be asked for: a TypeId, or a Function found in   *)
(* an interface's or a world's function table.                              *)
TypeElement(id) == [tag |-> "Type", id |-> id]
FunctionElement(encl, idx, k) == [tag |-> "Function", encl |-> encl, idx |-> idx, k |-> k]

FunctionAt(r, e) ==
    IF e.encl = "Interface" THEN r.interfaces[e.idx].functions[e.k]
    ELSE r.worlds[e.idx].functions[e.k]

TypeElements(r) == {TypeElement(id) : id \in DOMAIN r.types}

FunctionElements(r) ==
    UNION {{FunctionElement("Interface", i, k) :
                k \in DOMAIN r.interfaces[i].functions} : i \in DOMAIN r.interfaces}
    \cup
    UNION {{FunctionElement("World", w, k) :
                k \in DOMAIN r.worlds[w].functions} : w \in DOMAIN r.worlds}

Elements(r) == TypeElements(r) \cup FunctionElements(r)

----------------------------------------------------------------------------
(* Vec<String>::join *)

RECURSIVE join(_, _)
join(path, sep) ==
    IF Len(path) = 0 THEN ""
    ELSE IF Len(path) = 1 THEN path[1]
    ELSE path[1] \o sep \o join(Tail(path), sep)

(* configuration_name for &TypeId with the interface name pushed inside    *)
(* the package branch                                                      *)
configuration_name_type_NameNeedsPackage(r, type_id) ==
    LET type_ == r.types[type_id]
        owner_path ==
            CASE type_.owner.tag = "World" ->
                    <<r.worlds[type_.owner.id].name>>
              [] type_.owner.tag = "Interface" ->
                    LET interface == r.interfaces[type_.owner.id]
                    IN  IF IsSome(interface.package)
                        THEN LET package == r.packages[Unwrap(interface.package)]
                                 pkg_path == <<package.namespace, package.name>>
                             IN  IF IsSome(interface.name)
                                 THEN Append(pkg_path, Unwrap(interface.name))
                                 ELSE pkg_path
                        ELSE <<>>
              [] type_.owner.tag = "None" -> <<>>
        path == IF IsSome(type_.name)
                THEN Append(owner_path, Unwrap(type_.name))
                ELSE owner_path
    IN  join(path, ":")

(* impl ConfigurableElement for &TypeId *)
configuration_name_type(r, type_id) ==
    LET type_ == r.types[type_id]
        owner_path ==
            CASE type_.owner.tag = "World" ->
                    <<r.worlds[type_.owner.id].name>>
              [] type_.owner.tag = "Interface" ->
                    LET interface == r.interfaces[type_.owner.id]
                        pkg_path ==
                            IF IsSome(interface.package)
                            THEN LET package == r.packages[Unwrap(interface.package)]
                                 IN  <<package.namespace, package.name>>
                            ELSE <<>>
                    IN  IF IsSome(interface.name)
                        THEN Append(pkg_path, Unwrap(interface.name))
                        ELSE pkg_path
              [] type_.owner.tag = "None" -> <<>>
        path == IF IsSome(type_.name)
                THEN Append(owner_path, Unwrap(type_.name))
                ELSE owner_path
    IN  join(path, ":")

(* configuration_name for &Function with only the Method arm bound *)
configuration_name_function_MethodOnly(r, function) ==
    IF function.kind.tag # "Method"
    THEN function.item_name
    ELSE LET path == configuration_name_type(r, function.kind.id)
             name == function.item_name
         IN  path \o "." \o name \o "()"

(* impl ConfigurableElement for &Function *)
configuration_name_function(r, function) ==
    IF function.kind.tag = "Freestanding"
    THEN function.item_name
    ELSE LET path == configuration_name_type(r, function.kind.id)
             name == function.item_name
         IN  path \o "." \o name \o "()"

(* ConfigurableElement::configuration_name, dispatched on the element *)
configuration_name(r, element) ==
    IF element.tag = "Type"
    THEN configuration_name_type(r, element.id)
    ELSE configuration_name_function(r, FunctionAt(r, element))

----------------------------------------------------------------------------
(* enum ElementConfig *)

ECNone == [tag |-> "None"]
ECRecord(as_class) == [tag |-> "Record", as_class |-> as_class]
ECResource(as_iterator, use_guest_class) ==
    [tag |-> "Resource", as_iterator |-> as_iterator,
     use_guest_class |-> use_guest_class]
ECEnum(as_typescript_enum) ==
    [tag |-> "Enum", as_typescript_enum |-> as_typescript_enum]
ECVariant(as_direct_union_of_resource_classes) ==
    [tag |-> "Variant",
     as_direct_union_of_resource_classes |-> as_direct_union_of_resource_classes]
ECListOfTuple(as_dictionary) ==
    [tag |-> "ListOfTuple", as_dictionary |-> as_dictionary]

ElementConfig ==
    {ECNone}
    \cup {ECRecord(b) : b \in BOOLEAN}
    \cup {ECResource(b, c) : b \in BOOLEAN, c \in BOOLEAN}
    \cup {ECEnum(b) : b \in BOOLEAN}
    \cup {ECVariant(b) : b \in BOOLEAN}
    \cup {ECListOfTuple(b) : b \in BOOLEAN}

(* HashMap::get(..).unwrap_or(&ElementConfig::None) *)
lookup(m, key) == IF key \in DOMAIN m THEN m[key] ELSE ECNone

(* Configuration::get *)
get(m, r, element) ==
    LET path == configuration_name(r, element)
    IN  lookup(m, path)

(* get_member looking up the element's own key *)
get_member_ElementKey(m, r, element, name) ==
    LET path == configuration_name(r, element)
    IN  lookup(m, path)

(* Configuration::get_member *)
get_member(m, r, element, name) ==
    LET path == configuration_name(r, element)
    IN  lookup(m, path \o "." \o name)

(* impl ElementConfig: the six accessors *)
enum_as_typescript_enum(self) ==
    IF self.tag = "Enum" THEN self.as_typescript_enum ELSE FALSE

record_as_class(self) ==
    IF self.tag = "Record" THEN self.as_class ELSE FALSE

resource_as_iterator(self) ==
    IF self.tag = "Resource" THEN self.as_iterator ELSE FALSE

(* resource_use_guest_class reading the other flag of the arm *)
resource_use_guest_class_OtherFlag(self) ==
    IF self.tag = "Resource" THEN self.as_iterator ELSE FALSE

resource_use_guest_class(self) ==
    IF self.tag = "Resource" THEN self.use_guest_class ELSE FALSE

variant_as_direct_union_of_resource_classes(self) ==
    IF self.tag = "Variant" THEN self.as_direct_union_of_resource_classes ELSE FALSE

list_of_tuple_as_dictionary(self) ==
    IF self.tag = "ListOfTuple" THEN self.as_dictionary ELSE FALSE

Accessors ==
    {"enum_as_typescript_enum", "record_as_class", "resource_as_iterator",
     "resource_use_guest_class", "variant_as_direct_union_of_resource_classes",
     "list_of_tuple_as_dictionary"}

----------------------------------------------------------------------------
(* impl PrivateTypeExtensions for Type *)

type_id(self) == IF self.tag = "Id" THEN Some(self.id) ELSE None

type_def(self, r) ==
    IF IsSome(type_id(self)) THEN Some(r.types[Unwrap(type_id(self))]) ELSE None

list_element_type(self, r) ==
    LET d == type_def(self, r)
    IN  IF IsSome(d) /\ Unwrap(d).kind.tag = "List"
        THEN Some(Unwrap(d).kind.ty) ELSE None

option_payload_type(self, r) ==
    LET d == type_def(self, r)
    IN  IF IsSome(d) /\ Unwrap(d).kind.tag = "Option"
        THEN Some(Unwrap(d).kind.ty) ELSE None

tuple_types(self, r) ==
    LET d == type_def(self, r)
    IN  IF IsSome(d) /\ Unwrap(d).kind.tag = "Tuple"
        THEN Some(Unwrap(d).kind.types) ELSE None

variant_cases(self, r) ==
    LET d == type_def(self, r)
    IN  IF IsSome(d) /\ Unwrap(d).kind.tag = "Variant"
        THEN Some(Unwrap(d).kind.cases) ELSE None

(* methods_of_resource keeping every function bound to the type *)
methods_of_resource_AnyKind(self, r) ==
    IF IsSome(type_id(self))
    THEN LET id == Unwrap(type_id(self))
             d == r.types[id]
         IN  IF d.owner.tag = "Interface"
             THEN Some(SelectSeq(r.interfaces[d.owner.id].functions,
                                 LAMBDA function :
                                     /\ function.kind.tag # "Freestanding"
                                     /\ function.kind.id = id))
             ELSE None
    ELSE None

(* interface.functions.iter().flat_map(..).collect(): the functions whose   *)
(* kind equals Method(type_id), in table order                             *)
methods_of_resource(self, r) ==
    IF IsSome(type_id(self))
    THEN LET id == Unwrap(type_id(self))
             d == r.types[id]
         IN  IF d.owner.tag = "Interface"
             THEN Some(SelectSeq(r.interfaces[d.owner.id].functions,
                                 LAMBDA function : function.kind = Method(id)))
             ELSE None
    ELSE None

----------------------------------------------------------------------------
(* impl TypeExtensions for Type: the three classifiers *)

(* the dictionary classifier accepting longer tuples *)
value_type_of_list_of_tuple_interpretable_as_dictionary_AtLeastTwo(self, r) ==
    LET ty == list_element_type(self, r)
        tt == IF IsSome(ty) THEN tuple_types(Unwrap(ty), r) ELSE None
    IN  IF IsSome(tt)
        THEN LET tuple_types_ == Unwrap(tt)
             IN  IF Len(tuple_types_) >= 2 /\ tuple_types_[1] = TString
                 THEN Some(tuple_types_[2])
                 ELSE None
        ELSE None

value_type_of_list_of_tuple_interpretable_as_dictionary(self, r) ==
    LET ty == list_element_type(self, r)
        tt == IF IsSome(ty) THEN tuple_types(Unwrap(ty), r) ELSE None
    IN  IF IsSome(tt)
        THEN LET tuple_types_ == Unwrap(tt)
             IN  IF Len(tuple_types_) = 2 /\ tuple_types_[1] = TString
                 THEN Some(tuple_types_[2])
                 ELSE None
        ELSE None

(* Iterator::find: the first item satisfying the predicate *)
find_next(methods) ==
    LET hits == SelectSeq(methods, LAMBDA method : method.item_name = "next")
    IN  IF Len(hits) = 0 THEN None ELSE Some(hits[1])

payload_type_of_option_result_of_next_method_of_resource(self, r) ==
    LET methods == methods_of_resource(self, r)
        found == IF IsSome(methods) THEN find_next(Unwrap(methods)) ELSE None
    IN  IF IsSome(found)
        THEN LET method == Unwrap(found)
             IN  IF Len(method.results) = 1
                 THEN option_payload_type(method.results[1], r)
                 ELSE None
        ELSE None

(* the filter_map closure accepting borrowed handles too *)
case_handle_type_def_AnyHandle(case, r) ==
    IF IsSome(case.ty)
    THEN LET d == type_def(Unwrap(case.ty), r)
         IN  IF IsSome(d) /\ Unwrap(d).kind.tag = "Handle"
             THEN type_def(TId(Unwrap(d).kind.id), r)
             ELSE None
    ELSE None

(* the filter_map closure keeping only handles of Resource definitions *)
case_handle_type_def_ResourcesOnly(case, r) ==
    IF IsSome(case.ty)
    THEN LET d == type_def(Unwrap(case.ty), r)
         IN  IF IsSome(d) /\ Unwrap(d).kind.tag = "Handle"
                /\ Unwrap(d).kind.handle = "Own"
                /\ r.types[Unwrap(d).kind.id].kind.tag = "Resource"
             THEN type_def(TId(Unwrap(d).kind.id), r)
             ELSE None
    ELSE None

(* the closure given to filter_map: the definition an owned handle targets *)
case_handle_type_def(case, r) ==
    IF IsSome(case.ty)
    THEN LET d == type_def(Unwrap(case.ty), r)
         IN  IF IsSome(d) /\ Unwrap(d).kind.tag = "Handle"
                /\ Unwrap(d).kind.handle = "Own"
             THEN type_def(TId(Unwrap(d).kind.id), r)
             ELSE None
    ELSE None

(* Iterator::filter_map(..).collect() over the cases, in case order *)
RECURSIVE filter_map_cases(_, _)
filter_map_cases(cases, r) ==
    IF Len(cases) = 0 THEN <<>>
    ELSE LET d == case_handle_type_def(Head(cases), r)
         IN  (IF IsSome(d) THEN <<Unwrap(d)>> ELSE <<>>)
             \o filter_map_cases(Tail(cases), r)

variant_case_type_defs_where_they_are_all_handles(self, r) ==
    LET cases == variant_cases(self, r)
    IN  IF IsSome(cases) THEN Some(filter_map_cases(Unwrap(cases), r)) ELSE None

----------------------------------------------------------------------------
(* The calls the emitter can make.  Every call takes the type graph and    *)
(* the configuration by shared reference (&Resolve, &self).                *)

NoCall == [op |-> "none"]

TypeInputs(r) == {TString, TU32} \cup {TId(id) : id \in DOMAIN r.types}

MemberNames == {"m", "n"}

(* The observer: the last call and its result, and for the probed call its *)
(* first result and whether it has been made again since.                  *)
Observe(c, res) ==
    /\ call' = c
    /\ result' = res
    /\ probeResult' =
          IF c # probe THEN probeResult
          ELSE IF probeResult = None
               THEN Some([first |-> res, repeated |-> FALSE])
               ELSE Some([first |-> Unwrap(probeResult).first, repeated |-> TRUE])
    /\ UNCHANGED probe

PathOfType ==
    \E e \in TypeElements(resolve) :
        /\ Observe([op |-> "path", element |-> e],
                   configuration_name_type(resolve, e.id))
        /\ UNCHANGED <<resolve, mappings>>

PathOfFunction ==
    \E e \in FunctionElements(resolve) :
        /\ Observe([op |-> "path", element |-> e],
                   configuration_name_function(resolve, FunctionAt(resolve, e)))
        /\ UNCHANGED <<resolve, mappings>>

(* get filling the mapping with the default it returns *)
Get_Inserting ==
    \E e \in Elements(resolve) :
        LET path == configuration_name(resolve, e)
        IN  /\ Observe([op |-> "get", element |-> e], get(mappings, resolve, e))
            /\ mappings' = IF path \in DOMAIN mappings THEN mappings
                           ELSE [k \in DOMAIN mappings \cup {path} |->
                                    IF k = path THEN ECNone ELSE mappings[k]]
            /\ UNCHANGED resolve

Get ==
    \E e \in Elements(resolve) :
        /\ Observe([op |-> "get", element |-> e], get(mappings, resolve, e))
        /\ UNCHANGED <<resolve, mappings>>

GetMember ==
    \E e \in Elements(resolve), name \in MemberNames :
        /\ Observe([op |-> "get_member", element |-> e, name |-> name],
                   get_member(mappings, resolve, e, name))
        /\ UNCHANGED <<resolve, mappings>>

EnumAsTypescriptEnum ==
    \E self \in ElementConfig :
        /\ Observe([op |-> "enum_as_typescript_enum", self |-> self],
                   enum_as_typescript_enum(self))
        /\ UNCHANGED <<resolve, mappings>>

RecordAsClass ==
    \E self \in ElementConfig :
        /\ Observe([op |-> "record_as_class", self |-> self],
                   record_as_class(self))
        /\ UNCHANGED <<resolve, mappings>>

ResourceAsIterator ==
    \E self \in ElementConfig :
        /\ Observe([op |-> "resource_as_iterator", self |-> self],
                   resource_as_iterator(self))
        /\ UNCHANGED <<resolve, mappings>>

ResourceUseGuestClass ==
    \E self \in ElementConfig :
        /\ Observe([op |-> "resource_use_guest_class", self |-> self],
                   resource_use_guest_class(self))
        /\ UNCHANGED <<resolve, mappings>>

VariantAsDirectUnionOfResourceClasses ==
    \E self \in ElementConfig :
        /\ Observe([op |-> "variant_as_direct_union_of_resource_classes",
                    self |-> self],
                   variant_as_direct_union_of_resource_classes(self))
        /\ UNCHANGED <<resolve, mappings>>

ListOfTupleAsDictionary ==
    \E self \in ElementConfig :
        /\ Observe([op |-> "list_of_tuple_as_dictionary", self |-> self],
                   list_of_tuple_as_dictionary(self))
        /\ UNCHANGED <<resolve, mappings>>

ClassifyDictionary ==
    \E ty \in TypeInputs(resolve) :
        /\ Observe([op |-> "dictionary", ty |-> ty],
                   value_type_of_list_of_tuple_interpretable_as_dictionary(ty, resolve))
        /\ UNCHANGED <<resolve, mappings>>

ClassifyIterator ==
    \E ty \in TypeInputs(resolve) :
        /\ Observe([op |-> "iterator", ty |-> ty],
                   payload_type_of_option_result_of_next_method_of_resource(ty, resolve))
        /\ UNCHANGED <<resolve, mappings>>

ClassifyVariant ==
    \E ty \in TypeInputs(resolve) :
        /\ Observe([op |-> "variant", ty |-> ty],
                   variant_case_type_defs_where_they_are_all_handles(ty, resolve))
        /\ UNCHANGED <<resolve, mappings>>

----------------------------------------------------------------------------
(* Type graphs.  The graph and the mapping are built once by the callers   *)
(* and only read afterwards; Init draws them from the families below.      *)

Package(namespace, name) == [namespace |-> namespace, name |-> name]
Interface(package, name, functions) ==
    [package |-> package, name |-> name, functions |-> functions]

(* a world's imported and exported functions are kept as one list *)
World(name, functions) == [name |-> name, functions |-> functions]

Resolve(types, interfaces, packages, worlds) ==
    [types |-> types, interfaces |-> interfaces,
     packages |-> packages, worlds |-> worlds]

Packages == <<Package("ns", "pkg")>>

(* two worlds of the same name (they belong to different packages) *)
Worlds ==
    <<World("w", <<Function(Freestanding, "f", <<>>)>>),
      World("w", <<>>)>>

(* Function table of the first interface of a path graph of n types *)
PathFunctions(n) ==
    <<Function(Freestanding, "f", <<>>),
      Function(Freestanding, "get", <<>>),
      Function(Method(1), "get", <<TU32>>),
      Function(Static(1), "make", <<TU32>>),
      Function(Constructor(1), "new", <<>>),
      Function(Method(n), "next", <<TU32>>),
      Function(Static(n), "f", <<>>)>>

(* the four interfaces: with/without package, named/anonymous *)
PathInterfaces(n) ==
    <<Interface(Some(1), Some("i"), PathFunctions(n)),
      Interface(Some(1), None, <<>>),
      Interface(None, Some("i"), <<Function(Freestanding, "f", <<>>)>>),
      Interface(None, None, <<>>)>>

PathOwners ==
    {OwnerWorld(1), OwnerWorld(2), OwnerNone} \cup {OwnerInterface(i) : i \in 1..4}

PathTypeDefs ==
    {TypeDef(name, KResource, owner) :
        name \in {None, Some("a"), Some("b")}, owner \in PathOwners}

(* an owner declares each type name once *)
DistinctNames(types) ==
    \A i, j \in DOMAIN types :
        (i # j /\ types[i].owner = types[j].owner /\ IsSome(types[i].name))
            => types[i].name # types[j].name

PathGraphs ==
    {Resolve(types, PathInterfaces(Len(types)), Packages, Worlds) :
        types \in {t \in SeqsUpTo(PathTypeDefs, MaxTypes) :
                      t # <<>> /\ DistinctNames(t)}}

(* list / tuple shapes for the dictionary classifier *)
DictOuterKinds ==
    {KList(e) : e \in {TString, TU32, TId(2), TId(3)}}
    \cup {KOption(e) : e \in {TString, TU32, TId(2), TId(3)}}
    \cup {KTuple(<<TString, TU32>>), KRecord}

DictInnerKinds ==
    {KTuple(types) : types \in SeqsUpTo({TString, TU32, TId(3)}, MaxTupleLen)}
    \cup {KList(TString), KRecord}

DictGraphs ==
    {Resolve(<<TypeDef(None, outer, OwnerNone),
               TypeDef(None, inner, OwnerNone),
               TypeDef(Some("s"), KType(TString), OwnerNone)>>,
             <<>>, Packages, Worlds) :
        outer \in DictOuterKinds, inner \in DictInnerKinds}

(* function tables for the iterator classifier *)
IterKinds == {Method(1), Method(2), Static(1), Constructor(1)}

(* declared results: any number of results of the third type (an option or *)
(* a list, by the graph), or one primitive result                          *)
IterResults == SeqsUpTo({TId(3)}, MaxResults) \cup {<<TU32>>}

IterFunctions ==
    {Function(kind, "next", results) : kind \in IterKinds, results \in IterResults}
    \cup {Function(kind, "get", <<TId(3)>>) : kind \in {Method(1), Static(1)}}

IterGraphs ==
    {Resolve(<<TypeDef(Some("r"), KResource, owner),
               TypeDef(Some("q"), KResource, OwnerInterface(1)),
               TypeDef(None, third, OwnerNone)>>,
             <<Interface(Some(1), Some("i"), functions),
               Interface(Some(1), Some("j"),
                         <<Function(Method(1), "next", <<TId(3)>>)>>)>>,
             Packages, Worlds) :
        owner \in {OwnerInterface(1), OwnerInterface(2), OwnerWorld(1), OwnerNone},
        third \in {KOption(TU32), KList(TU32)},
        functions \in SeqsUpTo(IterFunctions, MaxFunctions)}

(* variants for the resource-handle-union classifier *)
VariantPayloads ==
    {None, Some(TU32), Some(TId(1)), Some(TId(4)), Some(TId(5)),
     Some(TId(6)), Some(TId(7))}

VariantGraphs ==
    {Resolve(<<TypeDef(Some("x"), KResource, OwnerInterface(1)),
               TypeDef(Some("y"), KResource, OwnerInterface(1)),
               TypeDef(Some("z"), KType(TId(1)), OwnerInterface(2)),
               TypeDef(None, KHandleOwn(1), OwnerNone),
               TypeDef(None, KHandleOwn(2), OwnerNone),
               TypeDef(None, KHandleOwn(3), OwnerNone),
               TypeDef(None, KHandleBorrow(1), OwnerNone),
               TypeDef(Some("v"), KVariant([k \in DOMAIN payloads |->
                                               Case("c", payloads[k])]),
                       OwnerInterface(1))>>,
             <<Interface(Some(1), Some("i"), <<>>),
               Interface(Some(1), Some("j"), <<>>)>>,
             Packages, Worlds) :
        payloads \in SeqsUpTo(VariantPayloads, MaxCases)}

(* configuration mappings *)
KeyPool == {"ns:pkg:i:a", "ns:pkg:i:a.m", "", "ns:pkg:i:a.get()"}

Mappings ==
    UNION {[keys -> ElementConfig] :
              keys \in {K \in SUBSET KeyPool : Cardinality(K) <= MaxKeys}}

StoreGraph ==
    Resolve(<<TypeDef(Some("a"), KResource, OwnerInterface(1)),
              TypeDef(None, KRecord, OwnerNone)>>,
            PathInterfaces(2), Packages, Worlds)

----------------------------------------------------------------------------
(* Specifications *)

InitObserver ==
    /\ call = NoCall
    /\ result = None
    /\ probe = NoCall
    /\ probeResult = None

(* paths of types and functions *)
InitPath ==
    /\ resolve \in PathGraphs
    /\ mappings = <<>>
    /\ InitObserver

NextPath == PathOfType \/ PathOfFunction

SpecPath == InitPath /\ [][NextPath]_vars

(* the configuration store *)
InitStore ==
    /\ resolve = StoreGraph
    /\ mappings \in Mappings
    /\ InitObserver

NextStore == Get \/ GetMember

SpecStore == InitStore /\ [][NextStore]_vars

(* the accessors, applied to any ElementConfig and next to lookups *)
InitAccessors ==
    /\ resolve = StoreGraph
    /\ mappings \in {<<>>} \cup [{"ns:pkg:i:a"} -> ElementConfig]
    /\ InitObserver

NextAccessors ==
    \/ Get
    \/ EnumAsTypescriptEnum
    \/ RecordAsClass
    \/ ResourceAsIterator
    \/ ResourceUseGuestClass
    \/ VariantAsDirectUnionOfResourceClasses
    \/ ListOfTupleAsDictionary

SpecAccessors == InitAccessors /\ [][NextAccessors]_vars

(* the dictionary classifier *)
InitDict ==
    /\ resolve \in DictGraphs
    /\ mappings = <<>>
    /\ InitObserver

NextDict == ClassifyDictionary

SpecDict == InitDict /\ [][NextDict]_vars

(* the iterator classifier *)
InitIter ==
    /\ resolve \in IterGraphs
    /\ mappings = <<>>
    /\ InitObserver

NextIter == ClassifyIterator

SpecIter == InitIter /\ [][NextIter]_vars

(* the resource-handle-union classifier *)
InitVariant ==
    /\ resolve \in VariantGraphs
    /\ mappings = <<>>
    /\ InitObserver

NextVariant == ClassifyVariant

SpecVariant == InitVariant /\ [][NextVariant]_vars

(* every operation, in any order, with one call probed for repetition *)
AllGraph ==
    Resolve(<<TypeDef(Some("a"), KResource, OwnerInterface(1)),
              TypeDef(None, KOption(TU32), OwnerNone),
              TypeDef(None, KTuple(<<TString, TU32>>), OwnerNone),
              TypeDef(None, KList(TId(3)), OwnerNone),
              TypeDef(None, KHandleOwn(1), OwnerNone),
              TypeDef(Some("v"),
                      KVariant(<<Case("c", Some(TId(5))), Case("d", Some(TU32))>>),
                      OwnerInterface(1))>>,
            <<Interface(Some(1), Some("i"),
                        <<Function(Method(1), "next", <<TId(2)>>),
                          Function(Freestanding, "f", <<>>)>>)>>,
            Packages, Worlds)

(* the resource and one of its members are configured, nothing else is *)
AllMapping == [k \in {"ns:pkg:i:a", "ns:pkg:i:a.m"} |-> ECResource(TRUE, FALSE)]

Calls(r) ==
    {[op |-> "path", element |-> e] : e \in Elements(r)}
    \cup {[op |-> "get", element |-> e] : e \in Elements(r)}
    \cup {[op |-> "get_member", element |-> e, name |-> name] :
              e \in Elements(r), name \in MemberNames}
    \cup {[op |-> op, self |-> self] : op \in Accessors, self \in ElementConfig}
    \cup {[op |-> op, ty |-> ty] :
              op \in {"dictionary", "iterator", "variant"}, ty \in TypeInputs(r)}

Init ==
    /\ resolve = AllGraph
    /\ mappings = AllMapping
    /\ call = NoCall
    /\ result = None
    /\ probe \in Calls(resolve)
    /\ probeResult = None

Next ==
    \/ PathOfType
    \/ PathOfFunction
    \/ Get
    \/ GetMember
    \/ EnumAsTypescriptEnum
    \/ RecordAsClass
    \/ ResourceAsIterator
    \/ ResourceUseGuestClass
    \/ VariantAsDirectUnionOfResourceClasses
    \/ ListOfTupleAsDictionary
    \/ ClassifyDictionary
    \/ ClassifyIterator
    \/ ClassifyVariant

Spec == Init /\ [][Next]_vars

----------------------------------------------------------------------------
(* Properties of the configuration store and the accessors *)

(* C1: get returns the None arm when path(element) is not a key of the     *)
(* mapping and get_member when path(element) + "." + m is not a key; with  *)
(* the key present they return exactly the mapped ElementConfig; the       *)
(* result is always an ElementConfig value, never a failure.               *)
C1_LookupOrNone ==
    /\ call.op = "get" =>
          LET key == configuration_name(resolve, call.element)
          IN  /\ result \in ElementConfig
              /\ key \notin DOMAIN mappings => result = ECNone
              /\ key \in DOMAIN mappings => result = mappings[key]
    /\ call.op = "get_member" =>
          LET key == configuration_name(resolve, call.element) \o "." \o call.name
          IN  /\ result \in ElementConfig
              /\ key \notin DOMAIN mappings => result = ECNone
              /\ key \in DOMAIN mappings => result = mappings[key]

(* a member lookup that hits its key while the element's own key is absent *)
C1_Witness ==
    /\ call.op = "get_member"
    /\ configuration_name(resolve, call.element) \notin DOMAIN mappings
    /\ (configuration_name(resolve, call.element) \o "." \o call.name)
           \in DOMAIN mappings
    /\ result # ECNone

(* the arm an accessor belongs to, and the flag it reads *)
OwnArm(op) ==
    CASE op = "enum_as_typescript_enum" -> "Enum"
      [] op = "record_as_class" -> "Record"
      [] op = "resource_as_iterator" -> "Resource"
      [] op = "resource_use_guest_class" -> "Resource"
      [] op = "variant_as_direct_union_of_resource_classes" -> "Variant"
      [] op = "list_of_tuple_as_dictionary" -> "ListOfTuple"

StoredFlag(op, self) ==
    CASE op = "enum_as_typescript_enum" -> self.as_typescript_enum
      [] op = "record_as_class" -> self.as_class
      [] op = "resource_as_iterator" -> self.as_iterator
      [] op = "resource_use_guest_class" -> self.use_guest_class
      [] op = "variant_as_direct_union_of_resource_classes" ->
            self.as_direct_union_of_resource_classes
      [] op = "list_of_tuple_as_dictionary" -> self.as_dictionary

(* C2: an accessor applied to a value of another arm (None included)       *)
(* returns false, applied to a value of its own arm it returns the stored  *)
(* flag; so it returns true only on its own arm with the flag set.         *)
C2_AccessorsKindSafe ==
    call.op \in Accessors =>
        /\ result \in BOOLEAN
        /\ call.self.tag # OwnArm(call.op) => result = FALSE
        /\ call.self.tag = OwnArm(call.op) => result = StoredFlag(call.op, call.self)
        /\ result = TRUE =>
              call.self.tag = OwnArm(call.op) /\ StoredFlag(call.op, call.self)

(* a Resource value whose two flags differ, read by the second accessor *)
C2_Witness ==
    /\ call.op = "resource_use_guest_class"
    /\ call.self = ECResource(FALSE, TRUE)
    /\ result = TRUE

----------------------------------------------------------------------------
(* Properties of the element path *)

(* the segments of a type's path, listed by owner *)
OwnerSegments(r, owner) ==
    IF owner.tag = "World" THEN <<r.worlds[owner.id].name>>
    ELSE IF owner.tag = "Interface"
    THEN LET i == r.interfaces[owner.id]
         IN  (IF i.package = None THEN <<>>
              ELSE <<r.packages[i.package[1]].namespace,
                     r.packages[i.package[1]].name>>)
             \o (IF i.name = None THEN <<>> ELSE <<i.name[1]>>)
    ELSE <<>>

ColonJoined(segs) ==
    CASE Len(segs) = 0 -> ""
      [] Len(segs) = 1 -> segs[1]
      [] Len(segs) = 2 -> segs[1] \o ":" \o segs[2]
      [] Len(segs) = 3 -> segs[1] \o ":" \o segs[2] \o ":" \o segs[3]
      [] Len(segs) = 4 ->
            segs[1] \o ":" \o segs[2] \o ":" \o segs[3] \o ":" \o segs[4]

ExpectedTypePath(r, id) ==
    ColonJoined(OwnerSegments(r, r.types[id].owner)
                \o (IF r.types[id].name = None THEN <<>>
                    ELSE <<r.types[id].name[1]>>))

(* C3: the path of a function bound to a type (Method, Static or           *)
(* Constructor) is the bound type's path, ".", the local name and "()";    *)
(* the path of a Freestanding function is its local name alone, whatever   *)
(* world or interface holds it.                                            *)
C3_FunctionPath ==
    (call.op = "path" /\ call.element.tag = "Function") =>
        LET function == FunctionAt(resolve, call.element)
        IN  IF function.kind.tag \in {"Method", "Static", "Constructor"}
            THEN result = ExpectedTypePath(resolve, function.kind.id)
                              \o "." \o function.item_name \o "()"
            ELSE result = function.item_name

(* the method get of the resource ns:pkg:i:a *)
C3_Witness ==
    /\ call.op = "path"
    /\ call.element.tag = "Function"
    /\ FunctionAt(resolve, call.element).kind = Method(1)
    /\ result = "ns:pkg:i:a.get()"

(* C4: the path of a type is the ":"-join of, in this order: the world     *)
(* name (owner World); namespace and package name when the owning          *)
(* interface has a package, then the interface name when it is named       *)
(* (owner Interface); then the type's own name when it is named.  A type   *)
(* with owner None and no name has the empty path.                         *)
C4_TypePath ==
    (call.op = "path" /\ call.element.tag = "Type") =>
        /\ result = ExpectedTypePath(resolve, call.element.id)
        /\ (resolve.types[call.element.id].owner = OwnerNone
            /\ resolve.types[call.element.id].name = None) => result = ""

(* a named type of a named interface of a package *)
C4_Witness ==
    /\ call.op = "path"
    /\ call.element.tag = "Type"
    /\ resolve.types[call.element.id].owner = OwnerInterface(1)
    /\ result = "ns:pkg:i:a"

(* C5: two distinct elements of a graph (two types, two functions, or a    *)
(* type and a function) never have the same path.                          *)
C5_PathUnique ==
    call.op = "path" =>
        \A other \in Elements(resolve) \ {call.element} :
            configuration_name(resolve, other) # result

----------------------------------------------------------------------------
(* Properties of the classifiers *)

Kind(r, ty) == r.types[ty.id].kind

(* List<Tuple<string, V>>, each step through a type id *)
IsListOfStringPairs(r, ty) ==
    /\ ty.tag = "Id"
    /\ Kind(r, ty).tag = "List"
    /\ Kind(r, ty).ty.tag = "Id"
    /\ Kind(r, Kind(r, ty).ty).tag = "Tuple"
    /\ Len(Kind(r, Kind(r, ty).ty).types) = 2
    /\ Kind(r, Kind(r, ty).ty).types[1] = TString

(* C6: the dictionary classifier returns Some(V) exactly when the input is *)
(* an id of a List whose element is an id of a Tuple of exactly two        *)
(* components, the first the primitive string, and V is the second         *)
(* component; otherwise it returns None.                                   *)
C6_Dictionary ==
    call.op = "dictionary" =>
        IF IsListOfStringPairs(resolve, call.ty)
        THEN result = Some(Kind(resolve, Kind(resolve, call.ty).ty).types[2])
        ELSE result = None

(* List<Tuple<string, u32>> gives Some(u32) *)
C6_Witness ==
    /\ call.op = "dictionary"
    /\ call.ty = TId(1)
    /\ resolve.types[2].kind = KTuple(<<TString, TU32>>)
    /\ result = Some(TU32)

(* positions, in the owning interface's table, of the methods of R named next *)
NextMethodPositions(r, ty) ==
    IF ty.tag = "Id" /\ r.types[ty.id].owner.tag = "Interface"
    THEN LET functions == r.interfaces[r.types[ty.id].owner.id].functions
         IN  {k \in DOMAIN functions :
                 /\ functions[k].kind.tag = "Method"
                 /\ functions[k].kind.id = ty.id
                 /\ functions[k].item_name = "next"}
    ELSE {}

FirstNextMethod(r, ty) ==
    LET ks == NextMethodPositions(r, ty)
        first == CHOOSE k \in ks : \A j \in ks : k <= j
    IN  r.interfaces[r.types[ty.id].owner.id].functions[first]

(* C7: the iterator classifier on R returns Some(T) exactly when the first *)
(* function, in table order of R's owning interface, that is a Method      *)
(* bound to R and named "next" declares exactly one result, an id of an    *)
(* Option<T>; otherwise (no such method, another arity, a non-option       *)
(* result, next only Static, Constructor or bound to another type, R not   *)
(* owned by an interface) it returns None.                                 *)
C7_Iterator ==
    call.op = "iterator" =>
        IF /\ NextMethodPositions(resolve, call.ty) # {}
           /\ Len(FirstNextMethod(resolve, call.ty).results) = 1
           /\ FirstNextMethod(resolve, call.ty).results[1].tag = "Id"
           /\ Kind(resolve, FirstNextMethod(resolve, call.ty).results[1]).tag = "Option"
        THEN result =
               Some(Kind(resolve, FirstNextMethod(resolve, call.ty).results[1]).ty)
        ELSE result = None

(* the first next method does not qualify, a later one would *)
C7_Witness ==
    /\ call.op = "iterator"
    /\ call.ty = TId(1)
    /\ resolve.types[1].owner = OwnerInterface(1)
    /\ resolve.types[3].kind = KOption(TU32)
    /\ resolve.interfaces[1].functions =
          <<Function(Method(1), "next", <<TU32>>),
            Function(Method(1), "next", <<TId(3)>>)>>
    /\ result = None

(* a case whose payload is an id of an owned handle *)
IsOwnedHandleCase(r, case) ==
    /\ case.ty # None
    /\ case.ty[1].tag = "Id"
    /\ Kind(r, case.ty[1]).tag = "Handle"
    /\ Kind(r, case.ty[1]).handle = "Own"

HandleTarget(r, case) == r.types[Kind(r, case.ty[1]).id]

(* C8: the resource-handle-union classifier returns None for a type that   *)
(* is not a Variant; for a Variant of n cases it returns Some(seq), seq    *)
(* holding in case order one definition per case with an owned-handle      *)
(* payload and nothing for the others: Len(seq) <= n, Len(seq) = n exactly *)
(* when every case qualifies, and Some(<<>>) when none does.               *)
C8_HandleUnion ==
    call.op = "variant" =>
        IF call.ty.tag = "Id" /\ Kind(resolve, call.ty).tag = "Variant"
        THEN LET cases == Kind(resolve, call.ty).cases
                 qual == {k \in DOMAIN cases : IsOwnedHandleCase(resolve, cases[k])}
                 rank(k) == Cardinality({j \in qual : j <= k})
             IN  /\ result # None
                 /\ Len(result[1]) = Cardinality(qual)
                 /\ \A k \in qual :
                        result[1][rank(k)] = HandleTarget(resolve, cases[k])
                 /\ Len(result[1]) <= Len(cases)
                 /\ Len(result[1]) = Len(cases) <=> qual = DOMAIN cases
                 /\ qual = {} => result = Some(<<>>)
        ELSE result = None

(* {A: own<X>, B: u32} gives the one definition of X *)
C8_Witness ==
    /\ call.op = "variant"
    /\ call.ty = TId(8)
    /\ Len(resolve.types[8].kind.cases) = 2
    /\ resolve.types[8].kind.cases[1].ty = Some(TId(4))
    /\ resolve.types[8].kind.cases[2].ty = Some(TU32)
    /\ result = Some(<<resolve.types[1]>>)

(* C9 as stated: every definition the resource-handle-union classifier     *)
(* returns is a Resource definition (a case whose owned handle targets     *)
(* another kind of definition is dropped).                                 *)
C9_OnlyResources ==
    (call.op = "variant" /\ result # None) =>
        \A k \in DOMAIN result[1] : result[1][k].kind.tag = "Resource"

(* C9 amended: every definition the resource-handle-union classifier       *)
(* returns is the definition targeted by the owned handle of a case, of    *)
(* whatever kind, and every such target is returned: a case whose owned    *)
(* handle targets a definition that is not a Resource (a type alias) is    *)
(* kept.                                                                   *)
C9_HandleTargets ==
    (call.op = "variant" /\ result # None) =>
        LET cases == Kind(resolve, call.ty).cases
        IN  /\ \A k \in DOMAIN result[1] :
                  \E j \in DOMAIN cases :
                      /\ IsOwnedHandleCase(resolve, cases[j])
                      /\ result[1][k] = HandleTarget(resolve, cases[j])
            /\ \A j \in DOMAIN cases :
                  IsOwnedHandleCase(resolve, cases[j]) =>
                      \E k \in DOMAIN result[1] :
                          result[1][k] = HandleTarget(resolve, cases[j])

(* an owned handle of a type alias contributes the alias definition *)
C9_Witness ==
    /\ call.op = "variant"
    /\ call.ty = TId(8)
    /\ result # None
    /\ \E k \in DOMAIN result[1] : result[1][k].kind.tag = "Type"

----------------------------------------------------------------------------
(* Frame and repetition *)

(* C10: no call, in any order, changes the type graph or the configuration *)
(* mapping, and a call made again at any later point returns a result      *)
(* equal to the one it returned first.                                     *)
C10_ReadOnlyRepeatable ==
    [][/\ resolve' = resolve
       /\ mappings' = mappings
       /\ (probeResult # None /\ call' = probe) =>
              result' = probeResult[1].first]_vars

(* a get that missed, made a second time *)
C10_Witness ==
    /\ probe.op = "get"
    /\ call = probe
    /\ probeResult # None
    /\ probeResult[1].repeated
    /\ result = ECNone
    /\ result = probeResult[1].first

====
